---- MODULE Spec2Model ----
(***************************************************************************)
(* Model of src/src/extension.ts (discord-vscode): the connection          *)
(* lifecycle of the Discord RPC client, its reconnect counter, the         *)
(* activity refresh timer and the status bar icon.                         *)
(*                                                                         *)
(* The program is single threaded.  One action of the model is one run    *)
(* of a callback (or of a command) up to its next real suspension point:  *)
(* an `await` on rpc.destroy() or on config.update().  The suspended      *)
(* continuations are kept in the bag `tasks`; the environment (the        *)
(* discord-rpc library, VS Code, the user) settles them later in any      *)
(* order.  An `await` on a destroyRPC() that returned at its first line   *)
(* (rpc is null) resumes in the same turn of the event loop and is part   *)
(* of the same action.                                                     *)
(*                                                                         *)
(* The handlers are operators from a program state (a record of the       *)
(* module-level variables of extension.ts) to a program state, composed   *)
(* in the order the code calls them.                                      *)
(***************************************************************************)
EXTENDS Integers, FiniteSets, Sequences, Bags, TLC

\* ------------------------------------------------------------------ bounds
\* Clients that can still emit an event, or are the current handle, at one time.
MaxClients == 2
\* Suspended async continuations at one time.
MaxTasks == 2
\* transport 'close' listeners on one Client.
MaxListeners == 2
\* Pending 500 ms timeouts at one time.
MaxTimeouts == 1
\* Interval handles (one more than the code should ever need).
MaxTimers == 2
\* The largest reconnectThreshold the user may have configured.
MaxThreshold == 2

Thresholds == 1..MaxThreshold
ClientIds == 1..MaxClients
TimerIds == 1..MaxTimers
\* null for a Client handle and for a timer handle
Null == 0

\* The editor's focused file as sampled by setActivity; NoFile: no editor.
NoFile == "null"
Files == {"a.ts"}
\* What `new Date().getTime()` may return; NoTime is a null startTimestamp.
NoTime == 0
Times == {1}
\* The login errors the catch handler distinguishes (line 168).
Errors == {"ENOENT", "other"}

VARIABLES
    phase,            \* "loaded" (before activate), "active", "deactivated"
    rpc,              \* let rpc: Client (line 31): Null or a ClientId
    clients,          \* every Client object created so far, by id
    config,           \* let config (line 33): the workspace configuration read
    reconnecting,     \* line 35
    reconnectCounter, \* line 37
    lastKnownFile,    \* line 39
    activity,         \* line 41
    activityTimer,    \* line 43: Null or the handle of an interval
    intervals,        \* the interval handles that are running
    timeouts,         \* pending callbacks of the setTimeout of line 124
    statusBarIcon,    \* line 45
    tasks             \* bag of suspended continuations

vars == <<phase, rpc, clients, config, reconnecting, reconnectCounter,
          lastKnownFile, activity, activityTimer, intervals, timeouts,
          statusBarIcon, tasks>>

\* ------------------------------------------------------- values and records
NoClient == [conn |-> "none", loud |-> FALSE, destroyed |-> FALSE,
             closed |-> FALSE, listeners |-> 0]

NoIcon == [shown |-> FALSE, text |-> "", attempts |-> 0, word |-> "", command |-> ""]

\* The config keys of the details/state templates (lines 235-236, 263-264).
TemplateKeys == {"detailsDebugging", "detailsEditing", "detailsIdle",
                 "lowerDetailsDebugging", "lowerDetailsEditing", "lowerDetailsIdle"}

\* A template is modelled by the placeholders it contains that the model
\* renders; a rendered string by its template and what replaced them.
PlainTemplates == [k \in TemplateKeys |-> {}]

NoString == [template |-> "", lang |-> "", LANG |-> "", filesize |-> FALSE]

\* null / undefined as the largeImageKey argument of generateDetails
NoImage == "none"

NoActivity == [set |-> FALSE, file |-> NoFile, startTimestamp |-> NoTime,
               largeImageKey |-> "", smallImageKey |-> "",
               details |-> NoString, state |-> NoString]

\* obs: what one run of a callback shows, starts and transmits.  It is a
\* field of the program state the handlers compute, and no variable: the
\* properties read it from the result of a handler.
\*   ev        the callback or command that ran
\*   errors    the window.showErrorMessage calls of the run, in order
\*   info      the window.showInformationMessage / showWarningMessage ("" if none)
\*   logins    rpc.login calls made (Clients created) in the step
\*   outcome   for a login failure: "retry", "exhausted", "failed"
\*   transmit  rpc.setActivity call: "" none, "null" (rpc was null: a TypeError),
\*             "live" (to a ready Client, not destroyed, not closed), "dead"
\*   redestroy rpc.destroy() was invoked on a Client already destroyed
\*   kind      for a settled promise: the function that was suspended on it
\*   build     what setActivity did: "" (not called, or returned at line 230),
\*             "partial" (lines 233-243), "full" (lines 245-281)
\*   ed        the editor state that build sampled
\*   stats     the templates getFileDetails called statSync for, in order
\*   threw     the run ended in an uncaught TypeError
ObsNone == [ev |-> "", kind |-> "", errors |-> <<>>, info |-> "", logins |-> 0,
            outcome |-> "", transmit |-> "", redestroy |-> FALSE,
            build |-> "", ed |-> [file |-> NoFile, debug |-> FALSE],
            stats |-> <<>>, threw |-> FALSE]

\* The module-level variables as one record (obs: nothing shown yet).
Cur == [phase |-> phase, rpc |-> rpc, clients |-> clients, config |-> config,
        reconnecting |-> reconnecting, reconnectCounter |-> reconnectCounter,
        lastKnownFile |-> lastKnownFile, activity |-> activity,
        activityTimer |-> activityTimer, intervals |-> intervals,
        timeouts |-> timeouts, statusBarIcon |-> statusBarIcon,
        tasks |-> tasks, obs |-> ObsNone, overflow |-> FALSE]

\* A step that would pass a bound of the model is not taken (overflow).
Fits(s) ==
    /\ ~s.overflow
    /\ BagCardinality(s.tasks) <= MaxTasks
    /\ s.timeouts <= MaxTimeouts
    /\ \A c \in ClientIds : s.clients[c].listeners <= MaxListeners

\* A Client whose login failed, or whose transport closed, emits no further
\* event, and the 'close' of a destroyed Client nobody listens to runs no
\* code; once such a Client is not the current handle either, nothing of
\* the program can reach it.
Inert(s, c) ==
    /\ c # s.rpc
    /\ \/ s.clients[c].conn = "failed"
       \/ s.clients[c].conn = "ready" /\ s.clients[c].closed
       \/ s.clients[c].conn = "ready" /\ s.clients[c].destroyed
             /\ s.clients[c].listeners = 0

Forget(s) ==
    [s EXCEPT !.clients = [c \in ClientIds |->
                              IF Inert(s, c) THEN NoClient ELSE s.clients[c]]]

\* Client objects have no identity beyond the references to them, and the
\* only reference is rpc: the Client that is the current handle is kept
\* under id 1 (the ids of two Clients are exchanged).
Canonical(s) ==
    IF s.rpc = Null \/ s.rpc = 1 THEN s
    ELSE [s EXCEPT !.clients = [c \in ClientIds |->
                                   IF c = 1 THEN s.clients[s.rpc]
                                   ELSE IF c = s.rpc THEN s.clients[1]
                                   ELSE s.clients[c]],
                   !.rpc = 1]

\* The step ends in program state s; unreachable Clients are dropped.
Becomes(s0) ==
    \E s \in {Canonical(Forget(s0))} :
    /\ Fits(s0)
    /\ phase' = s.phase
    /\ rpc' = s.rpc
    /\ clients' = s.clients
    /\ config' = s.config
    /\ reconnecting' = s.reconnecting
    /\ reconnectCounter' = s.reconnectCounter
    /\ lastKnownFile' = s.lastKnownFile
    /\ activity' = s.activity
    /\ activityTimer' = s.activityTimer
    /\ intervals' = s.intervals
    /\ timeouts' = s.timeouts
    /\ statusBarIcon' = s.statusBarIcon
    /\ tasks' = s.tasks

\* The program state at the start of callback ev.
Begin(ev) == [Cur EXCEPT !.obs.ev = ev]

Created(s) == {c \in ClientIds : s.clients[c].conn # "none"}
NumTasks(s) == BagCardinality(s.tasks)
Task(kind, at) == [kind |-> kind, at |-> at]
Suspend(s, kind, at) == [s EXCEPT !.tasks = @ (+) SetToBag({Task(kind, at)})]
Remove(s, t) == [s EXCEPT !.tasks = @ (-) SetToBag({t})]
\* The program state when the promise task k waits for is settled (event ev).
Resume(ev, k) == [Remove(Begin(ev), k) EXCEPT !.obs.kind = k.kind]

\* ------------------------------------------------------------ createButton
\* lines 176-207.  The text of the attempts variant is
\* `Reconnecting: ${attempts} attempt${attempts === 1 ? '' : 's'} left`.
AttemptsIcon(s) ==
    LET attempts == s.config.reconnectThreshold - s.reconnectCounter IN
    [shown |-> TRUE, text |-> "$(issue-reopened) Reconnecting: N W left",
     attempts |-> attempts,
     word |-> IF attempts = 1 THEN "attempt" ELSE "attempts",
     command |-> ""]

ManualIcon ==
    [shown |-> TRUE, text |-> "$(plug) Reconnect to Discord", attempts |-> 0,
     word |-> "", command |-> "discord.reconnect"]

\* createButton without the else branch of lines 194-206: an existing item
\* keeps its text and command.
createButton_noUpdate(s, isReconnecting) ==
    IF ~s.statusBarIcon.shown
    THEN [s EXCEPT !.statusBarIcon = IF isReconnecting THEN AttemptsIcon(s) ELSE ManualIcon]
    ELSE s

createButton(s, isReconnecting) ==
    IF ~s.statusBarIcon.shown
    THEN \* create the item, set text and command, show it
         [s EXCEPT !.statusBarIcon = IF isReconnecting THEN AttemptsIcon(s) ELSE ManualIcon]
    ELSE \* update text and command in place
         [s EXCEPT !.statusBarIcon =
             IF isReconnecting
             THEN [@ EXCEPT !.text = AttemptsIcon(s).text,
                            !.attempts = AttemptsIcon(s).attempts,
                            !.word = AttemptsIcon(s).word,
                            !.command = ""]
             ELSE [@ EXCEPT !.text = ManualIcon.text, !.attempts = 0, !.word = "",
                            !.command = "discord.reconnect"]]

\* -------------------------------------------------------------- destroyRPC
\* lines 210-220, entered with rpc non-null: up to and including the call
\* rpc.destroy(); the function is then suspended at its await.
destroyRPC_call(s) ==
    [s EXCEPT !.reconnecting = FALSE,
              !.intervals = @ \ {s.activityTimer},
              !.activityTimer = Null,
              !.clients[s.rpc].destroyed = TRUE,
              !.obs.redestroy = @ \/ s.clients[s.rpc].destroyed]

\* lines 221-224: after the promise of rpc.destroy() is fulfilled.
destroyRPC_resume(s) ==
    [s EXCEPT !.rpc = Null, !.lastKnownFile = NoFile]

\* ----------------------------------------------------------------- initRPC
\* lines 95-97 and 147: a new Client becomes the module-wide handle and its
\* login is started.  The 'ready' and catch callbacks registered here are
\* the actions Ready and LoginFailed.
FreeIds(s) == {c \in ClientIds : s.clients[c].conn = "none"}
MinOf(S) == CHOOSE x \in S : \A y \in S : x <= y

initRPC(s, loud) ==
    IF FreeIds(s) = {}
    THEN [s EXCEPT !.overflow = TRUE]
    ELSE LET id == MinOf(FreeIds(s)) IN
         [s EXCEPT !.clients[id] = [NoClient EXCEPT !.conn = "pending", !.loud = loud],
                   !.rpc = id,
                   !.obs.logins = @ + 1]

\* ------------------------------------------------------------- setActivity
SmallImageKey(ed) == IF ed.debug THEN "debug" ELSE "vscode"

\* Line 235 reads this.largeImageKey in a plain function call: in a strict
\* mode build `this` is undefined and the read throws a TypeError.
setActivityThrows(s, ed, strict) ==
    /\ strict
    /\ s.rpc # Null
    /\ ed.file # NoFile
    /\ ed.file = s.lastKnownFile

\* getFileDetails without the test of line 373.
getFileDetails_alwaysStat(s, k) == [s EXCEPT !.obs.stats = Append(@, k)]

\* lines 356-389 for the template under config key k: statSync is called
\* at line 376, under the test of line 373.
getFileDetails(s, k) ==
    IF "{filesize}" \in s.config.templates[k]
    THEN [s EXCEPT !.obs.stats = Append(@, k)]
    ELSE s

\* 'typescript' -> 'TYPESCRIPT', 'txt' -> 'TXT' (toUpperCase, line 324).
Upper(label) == IF label = "typescript" THEN "TYPESCRIPT"
                ELSE IF label = "txt" THEN "TXT"
                ELSE label

\* The template generateDetails renders (lines 286, 309-311, 331).
Selected(debugging, editing, idling, ed) ==
    IF ed.file = NoFile THEN idling
    ELSE IF ed.debug THEN debugging ELSE editing

\* lines 284-354: the string returned.  The language label is that of the
\* largeImageKey ARGUMENT, 'txt' when it is null or undefined (lines 323-324).
generateDetails(s, debugging, editing, idling, largeImageKey, ed) ==
    LET k == Selected(debugging, editing, idling, ed)
        label == IF largeImageKey = NoImage THEN "txt" ELSE largeImageKey
    IN IF ed.file = NoFile
       THEN [NoString EXCEPT !.template = k]
       ELSE [template |-> k,
             lang |-> IF "{lang}" \in s.config.templates[k] THEN label ELSE "",
             LANG |-> IF "{LANG}" \in s.config.templates[k] THEN Upper(label) ELSE "",
             filesize |-> "{filesize}" \in s.config.templates[k]]

\* The statSync calls of one generateDetails call (lines 312, 332).
generateDetailsStats(s, debugging, editing, idling, ed) ==
    IF ed.file = NoFile THEN s
    ELSE getFileDetails(s, Selected(debugging, editing, idling, ed))

\* Resolve without the 'vscode-big' of line 256 for no editor.
Resolve_noIdle(ed) ==
    IF ed.file = "a.ts" THEN "typescript" ELSE NoImage

\* lines 248-256: the image the focused file resolves to (the image of the
\* extension table or the language id), null when it is not known.
Resolve(ed) ==
    IF ed.file = NoFile THEN "vscode-big"
    ELSE IF ed.file = "a.ts" THEN "typescript"
    ELSE NoImage

\* lines 228-282; ed is the editor as sampled by the call, t the clock.
\* The partial update passes this.largeImageKey, which is undefined.
setActivity(s, workspaceElapsedTime, ed, t) ==
    IF s.rpc = Null THEN s
    ELSE LET s0 == generateDetailsStats(
                      generateDetailsStats([s EXCEPT !.obs.ed = ed],
                          "detailsDebugging", "detailsEditing", "detailsIdle", ed),
                      "lowerDetailsDebugging", "lowerDetailsEditing",
                      "lowerDetailsIdle", ed)
         IN
    IF ed.file # NoFile /\ ed.file = s.lastKnownFile
    THEN [s0 EXCEPT
            !.obs.build = "partial",
            !.activity =
               [@ EXCEPT !.set = TRUE,
                         !.details = generateDetails(s, "detailsDebugging",
                                        "detailsEditing", "detailsIdle", NoImage, ed),
                         !.state = generateDetails(s, "lowerDetailsDebugging",
                                      "lowerDetailsEditing", "lowerDetailsIdle",
                                      NoImage, ed),
                         !.smallImageKey = SmallImageKey(ed)]]
    ELSE LET previousTimestamp == IF s.activity.set THEN s.activity.startTimestamp
                                  ELSE NoTime
             largeImageKey == Resolve(ed)
         IN [s0 EXCEPT
               !.obs.build = "full",
               !.lastKnownFile = ed.file,
               !.activity =
                  [set |-> TRUE,
                   file |-> ed.file,
                   details |-> generateDetails(s, "detailsDebugging",
                                  "detailsEditing", "detailsIdle", largeImageKey, ed),
                   state |-> generateDetails(s, "lowerDetailsDebugging",
                                "lowerDetailsEditing", "lowerDetailsIdle",
                                largeImageKey, ed),
                   startTimestamp |->
                      IF ed.file # NoFile /\ previousTimestamp # NoTime
                         /\ workspaceElapsedTime
                      THEN previousTimestamp
                      ELSE IF ed.file # NoFile THEN t ELSE NoTime,
                   largeImageKey |-> IF largeImageKey # NoImage THEN largeImageKey
                                     ELSE "txt",
                   smallImageKey |-> SmallImageKey(ed)]]

\* rpc.setActivity(activity) of lines 124 and 142.
Live(s, c) ==
    /\ c # Null
    /\ s.clients[c].conn = "ready"
    /\ ~s.clients[c].destroyed
    /\ ~s.clients[c].closed

transmit(s) ==
    [s EXCEPT !.obs.transmit = IF s.rpc = Null THEN "null"
                               ELSE IF Live(s, s.rpc) THEN "live" ELSE "dead"]

\* ----------------------------------------------------------- ready handler
\* setInterval of line 138: a new running interval, its handle stored.
setInterval(s) ==
    LET free == TimerIds \ s.intervals IN
    IF free = {} THEN [s EXCEPT !.overflow = TRUE]
    ELSE [s EXCEPT !.intervals = @ \cup {MinOf(free)},
                   !.activityTimer = MinOf(free)]

\* The 'ready' handler without the clearInterval of lines 114-119.
readyHead_noClear(s, c) ==
    LET s1 == IF s.clients[c].loud /\ ~s.config.silent
              THEN [s EXCEPT !.obs.info = "Successfully reconnected to Discord RPC"]
              ELSE s
        s2 == IF s1.statusBarIcon.shown
              THEN [s1 EXCEPT !.statusBarIcon = NoIcon]
              ELSE s1
    IN [s2 EXCEPT !.reconnecting = FALSE,
                  !.reconnectCounter = 0,
                  !.clients[c].conn = "ready",
                  !.clients[c].loud = FALSE]

\* lines 101-121: the part of the 'ready' callback before setActivity().
readyHead(s, c) ==
    LET s1 == IF s.clients[c].loud /\ ~s.config.silent
              THEN [s EXCEPT !.obs.info = "Successfully reconnected to Discord RPC"]
              ELSE s
        s2 == IF s1.statusBarIcon.shown
              THEN [s1 EXCEPT !.statusBarIcon = NoIcon]
              ELSE s1
        s3 == [s2 EXCEPT !.reconnecting = FALSE]
        s4 == IF s3.activityTimer # Null
              THEN [s3 EXCEPT !.intervals = @ \ {s3.activityTimer},
                              !.activityTimer = Null]
              ELSE s3
    IN [s4 EXCEPT !.reconnectCounter = 0,
                  !.clients[c].conn = "ready",
                  !.clients[c].loud = FALSE]

\* lines 122-143: setActivity(), the 500 ms timeout, the transport 'close'
\* listener on the CURRENT rpc (a TypeError when rpc is null), the interval.
readyTail(s, ed, t) ==
    LET s1 == setActivity(s, FALSE, ed, t)
        s2 == [s1 EXCEPT !.timeouts = @ + 1]
    IN IF s2.rpc = Null
       THEN s2
       ELSE setInterval([s2 EXCEPT !.clients[s2.rpc].listeners = @ + 1])

\* lines 100-144: the 'ready' callback of Client c.
ready(s, c, ed, t, strict) ==
    LET s1 == readyHead(s, c) IN
    IF setActivityThrows(s1, ed, strict)
    THEN [s1 EXCEPT !.obs.ed = ed, !.obs.threw = TRUE]
    ELSE readyTail(s1, ed, t)

\* ------------------------------------------------------- login catch handler
\* lines 166-171.
announce(s, err) ==
    IF ~s.config.silent
    THEN createButton(
            [s EXCEPT !.obs.errors =
                Append(@, IF err = "ENOENT"
                          THEN "No Discord Client detected!"
                          ELSE "Couldn't connect to Discord via RPC")],
            FALSE)
    ELSE s

\* The catch callback without the reconnectCounter++ of line 158.
loginCatch_noIncrement(s, err) ==
    IF s.reconnecting
    THEN IF s.reconnectCounter >= s.config.reconnectThreshold
         THEN LET s1 == createButton([s EXCEPT !.obs.outcome = "exhausted"], FALSE) IN
              IF s1.rpc = Null
              THEN announce(s1, err)
              ELSE Suspend(destroyRPC_call(s1), "catch", "destroy")
         ELSE initRPC(createButton([s EXCEPT !.obs.outcome = "retry"], TRUE),
                      FALSE)
    ELSE announce([s EXCEPT !.obs.outcome = "failed"], err)

\* lines 147-172: the catch callback of the login of a Client.
loginCatch(s, err) ==
    IF s.reconnecting
    THEN IF s.reconnectCounter >= s.config.reconnectThreshold
         THEN LET s1 == createButton([s EXCEPT !.obs.outcome = "exhausted"], FALSE) IN
              IF s1.rpc = Null
              THEN announce(s1, err)
              ELSE Suspend(destroyRPC_call(s1), "catch", "destroy")
         ELSE initRPC(createButton([s EXCEPT !.reconnectCounter = @ + 1,
                                             !.obs.outcome = "retry"], TRUE),
                      FALSE)
    ELSE announce([s EXCEPT !.obs.outcome = "failed"], err)

\* ---------------------------------------------------- transport close handler
\* The close handler without the initRPC of line 132.
closeResume_noLogin(s) ==
    createButton([s EXCEPT !.reconnecting = TRUE], TRUE)

\* lines 130-134: after the await of line 128.
closeResume(s) ==
    createButton(initRPC([s EXCEPT !.reconnecting = TRUE], FALSE), TRUE)

RECURSIVE closeResumeAll(_, _)
closeResumeAll(s, n) == IF n = 0 THEN s ELSE closeResumeAll(closeResume(s), n - 1)

\* lines 126-128 for one listener, entered with rpc non-null.
closeCall(s) == Suspend(destroyRPC_call(s), "close", "destroy")

RECURSIVE closeCallAll(_, _)
closeCallAll(s, n) == IF n = 0 THEN s ELSE closeCallAll(closeCall(s), n - 1)

\* The 'close' event of the transport of Client c: its once-listeners run
\* one after the other in the same turn.
transportClose(s, c) ==
    LET n == s.clients[c].listeners
        s1 == [s EXCEPT !.clients[c].closed = TRUE, !.clients[c].listeners = 0]
    IN IF ~s1.config.enabled THEN s1
       ELSE IF s1.rpc = Null THEN closeResumeAll(s1, n)
       ELSE closeCallAll(s1, n)

\* ----------------------------------------------------------------- commands
\* lines 57-59: discord.enable up to its first suspension.
enableCall(s) ==
    IF s.rpc # Null
    THEN Suspend(destroyRPC_call(s), "enable", "destroy")
    ELSE Suspend(s, "enable", "update")

\* lines 60-62: after config.update('enabled', true).
enableResume(s) ==
    LET s1 == initRPC([s EXCEPT !.config.enabled = TRUE], FALSE) IN
    [s1 EXCEPT !.obs.info = "Enabled Discord Rich Presence for this workspace."]

\* lines 66-68.
disableCall(s) ==
    IF s.rpc = Null
    THEN [s EXCEPT !.obs.info = "Discord Rich Presence is already disabled in this workspace."]
    ELSE Suspend(s, "disable", "update")

\* line 71.
disableDone(s) ==
    [s EXCEPT !.obs.info = "Disabled Discord Rich Presence for this workspace."]

\* lines 69-70: after config.update('enabled', false).
disableResume(s) ==
    LET s1 == [s EXCEPT !.config.enabled = FALSE] IN
    IF s1.rpc = Null THEN disableDone(s1)
    ELSE Suspend(destroyRPC_call(s1), "disable", "destroy")

\* lines 77-81.
reconnectTail(s) ==
    LET s1 == initRPC(s, TRUE)
        s2 == IF ~s1.config.silent
              THEN [s1 EXCEPT !.obs.info = "Reconnecting to Discord RPC"]
              ELSE s1
    IN IF s2.statusBarIcon.shown
       THEN [s2 EXCEPT !.statusBarIcon.text = "$(pulse) Reconnecting"]
       ELSE s2

\* lines 75-76: discord.reconnect.
reconnectCall(s) ==
    IF s.rpc # Null
    THEN Suspend(destroyRPC_call(s), "reconnect", "destroy")
    ELSE reconnectTail(s)

\* lines 89-92.
deactivate(s) ==
    LET s1 == [s EXCEPT !.phase = "deactivated"] IN
    IF s1.rpc = Null THEN s1
    ELSE Suspend(destroyRPC_call(s1), "deactivate", "destroy")

\* lines 48-54.
activate(s) ==
    LET s1 == [s EXCEPT !.phase = "active"] IN
    IF s1.config.enabled THEN initRPC(s1, FALSE) ELSE s1

\* ------------------------------------------------------ settled promises
\* The continuation of task k once its rpc.destroy() is fulfilled.
afterDestroy(s, k, err) ==
    LET s1 == destroyRPC_resume(s) IN
    CASE k.kind = "enable"     -> Suspend(s1, "enable", "update")
      [] k.kind = "disable"    -> disableDone(s1)
      [] k.kind = "reconnect"  -> reconnectTail(s1)
      [] k.kind = "close"      -> closeResume(s1)
      [] k.kind = "catch"      -> announce(s1, err)
      [] k.kind = "deactivate" -> s1

\* rpc.destroy() rejected: destroyRPC throws at line 220, lines 221-224 do
\* not run, and only discord.reconnect catches it (line 76).
afterDestroyRejected(s, k) ==
    IF k.kind = "reconnect" THEN reconnectTail(s) ELSE s

\* The continuation of task k once config.update() is fulfilled.
afterUpdate(s, k) ==
    IF k.kind = "enable" THEN enableResume(s) ELSE disableResume(s)

\* ------------------------------------------------------------ timer callbacks
\* lines 138-143: one tick of the interval.
tick(s, ed, t, strict) ==
    IF setActivityThrows(s, ed, strict)
    THEN [s EXCEPT !.obs.ed = ed, !.obs.threw = TRUE]
    ELSE transmit(setActivity(s, s.config.workspaceElapsedTime, ed, t))

\* line 124: the callback of the 500 ms timeout.
timeoutFired(s) == transmit([s EXCEPT !.timeouts = @ - 1])

\* -------------------------------------------------------------------- spec
Editors == [file : Files \cup {NoFile}, debug : {FALSE}]

\* The configurations the user may have set before activation.
Configs == [enabled : BOOLEAN, silent : BOOLEAN, reconnectThreshold : Thresholds,
            workspaceElapsedTime : {TRUE}, templates : {PlainTemplates}]

Init ==
    /\ phase = "loaded"
    /\ rpc = Null
    /\ clients = [c \in ClientIds |-> NoClient]
    /\ config \in Configs
    /\ reconnecting = FALSE
    /\ reconnectCounter = 0
    /\ lastKnownFile = NoFile
    /\ activity = NoActivity
    /\ activityTimer = Null
    /\ intervals = {}
    /\ timeouts = 0
    /\ statusBarIcon = NoIcon
    /\ tasks = EmptyBag

Activate ==
    /\ phase = "loaded"
    /\ Becomes(activate(Begin("activate")))

Deactivate ==
    /\ phase = "active"
    /\ Becomes(deactivate(Begin("deactivate")))

CmdEnable ==
    /\ phase = "active"
    /\ Becomes(enableCall(Begin("enable")))

CmdDisable ==
    /\ phase = "active"
    /\ Becomes(disableCall(Begin("disable")))

CmdReconnect ==
    /\ phase = "active"
    /\ Becomes(reconnectCall(Begin("reconnect")))

\* The login of Client c succeeds: its 'ready' event.
Ready ==
    \E c \in ClientIds, ed \in Editors, t \in Times, strict \in BOOLEAN :
        /\ clients[c].conn = "pending"
        /\ ~clients[c].destroyed
        /\ Becomes(ready(Begin("ready"), c, ed, t, strict))

\* The program state when the login of Client c has been rejected.
Rejected(c) == [Begin("loginFailed") EXCEPT !.clients[c].conn = "failed"]

\* The login of Client c is rejected.
LoginFailed ==
    \E c \in ClientIds, err \in Errors :
        /\ clients[c].conn = "pending"
        /\ Becomes(loginCatch(Rejected(c), err))

\* The transport of a connected Client closes.
TransportClose ==
    \E c \in ClientIds :
        /\ clients[c].conn = "ready"
        /\ ~clients[c].closed
        /\ Becomes(transportClose(Begin("close"), c))

DestroyFulfilled ==
    \E k \in BagToSet(tasks), err \in Errors :
        /\ k.at = "destroy"
        /\ Becomes(afterDestroy(Resume("destroyed", k), k, err))

DestroyRejected ==
    \E k \in BagToSet(tasks) :
        /\ k.at = "destroy"
        /\ Becomes(afterDestroyRejected(Resume("destroyRejected", k), k))

UpdateFulfilled ==
    \E k \in BagToSet(tasks) :
        /\ k.at = "update"
        /\ Becomes(afterUpdate(Resume("updated", k), k))

TimerTick ==
    \E i \in intervals, ed \in Editors, t \in Times, strict \in BOOLEAN :
        Becomes(tick(Begin("tick"), ed, t, strict))

TimeoutFired ==
    /\ timeouts > 0
    /\ Becomes(timeoutFired(Begin("timeout")))

Next ==
    \/ Activate
    \/ CmdEnable
    \/ CmdDisable
    \/ CmdReconnect
    \/ Ready
    \/ LoginFailed
    \/ TransportClose
    \/ DestroyFulfilled
    \/ DestroyRejected
    \/ UpdateFulfilled
    \/ TimerTick
    \/ TimeoutFired

Spec == Init /\ [][Next]_vars

\* The user issues no enable and no reconnect command: every login after
\* activation is started by the program itself.
NextNoManual ==
    \/ Activate
    \/ CmdDisable
    \/ Ready
    \/ LoginFailed
    \/ TransportClose
    \/ DestroyFulfilled
    \/ DestroyRejected
    \/ UpdateFulfilled
    \/ TimerTick
    \/ TimeoutFired

SpecNoManual == Init /\ [][NextNoManual]_vars

\* The program left to itself after activation: no command is issued.
\* Every promise the program waits for is settled in the end: a login
\* succeeds or fails, an rpc.destroy() is fulfilled or rejected.
NextAuto ==
    \/ Activate
    \/ Ready
    \/ LoginFailed
    \/ TransportClose
    \/ DestroyFulfilled
    \/ DestroyRejected
    \/ TimerTick
    \/ TimeoutFired

SpecAuto ==
    /\ Init
    /\ [][NextAuto]_vars
    /\ WF_vars(Ready \/ LoginFailed)
    /\ WF_vars(DestroyFulfilled \/ DestroyRejected)

\* ------------------------------------------------- the activity builder
\* The automatic life cycle (no command is issued) with the inputs of
\* setActivity drawn from larger sets: two focused files, a debug session,
\* a clock that advances, templates with and without the {lang}, {LANG}
\* and {filesize} placeholders, workspaceElapsedTime on and off.
BuilderFiles == {"a.ts", "b.md"}
BuilderTimes == {1, 2}
BuilderEditors == [file : BuilderFiles \cup {NoFile}, debug : BOOLEAN]

TemplateChoices == {{}, {"{lang}", "{LANG}"}, {"{filesize}"}}

BuilderTemplates ==
    {tp \in [TemplateKeys -> TemplateChoices] :
        /\ tp["detailsIdle"] = {}
        /\ tp["lowerDetailsIdle"] = {}
        /\ tp["lowerDetailsDebugging"] = {}}

BuilderConfigs ==
    [enabled : {TRUE}, silent : {TRUE}, reconnectThreshold : {1},
     workspaceElapsedTime : BOOLEAN, templates : BuilderTemplates]

InitBuilder ==
    /\ phase = "loaded"
    /\ rpc = Null
    /\ clients = [c \in ClientIds |-> NoClient]
    /\ config \in BuilderConfigs
    /\ reconnecting = FALSE
    /\ reconnectCounter = 0
    /\ lastKnownFile = NoFile
    /\ activity = NoActivity
    /\ activityTimer = Null
    /\ intervals = {}
    /\ timeouts = 0
    /\ statusBarIcon = NoIcon
    /\ tasks = EmptyBag

BuilderReady ==
    \E c \in ClientIds, ed \in BuilderEditors, t \in BuilderTimes, strict \in BOOLEAN :
        /\ clients[c].conn = "pending"
        /\ ~clients[c].destroyed
        /\ Becomes(ready(Begin("ready"), c, ed, t, strict))

BuilderTick ==
    \E i \in intervals, ed \in BuilderEditors, t \in BuilderTimes, strict \in BOOLEAN :
        Becomes(tick(Begin("tick"), ed, t, strict))

NextBuilder ==
    \/ Activate
    \/ BuilderReady
    \/ LoginFailed
    \/ TransportClose
    \/ DestroyFulfilled
    \/ DestroyRejected
    \/ BuilderTick
    \/ TimeoutFired

SpecBuilder == InitBuilder /\ [][NextBuilder]_vars

\* The results of the callbacks of SpecBuilder that call setActivity.
BuilderSteps ==
    {r \in {ready(Begin("ready"), c, ed, t, strict) :
                c \in {d \in ClientIds : clients[d].conn = "pending"
                                            /\ ~clients[d].destroyed},
                ed \in BuilderEditors, t \in BuilderTimes, strict \in BOOLEAN}
            \cup (IF intervals # {}
                  THEN {tick(Begin("tick"), ed, t, strict) :
                           ed \in BuilderEditors, t \in BuilderTimes,
                           strict \in BOOLEAN}
                  ELSE {}) : Fits(r)}

\* --------------------------------------------------------- results of steps
\* The program states the callbacks that can run now end in, with what each
\* showed, started and transmitted (obs): the same events, guards and
\* handlers as the actions of Next.  The properties about one run of a
\* callback quantify over them.
CommandSteps ==
    IF phase = "active"
    THEN {enableCall(Begin("enable")), disableCall(Begin("disable")),
          reconnectCall(Begin("reconnect"))}
    ELSE {activate(Begin("activate"))}

ReadySteps ==
    {ready(Begin("ready"), c, ed, t, strict) :
        c \in {d \in ClientIds : clients[d].conn = "pending" /\ ~clients[d].destroyed},
        ed \in Editors, t \in Times, strict \in BOOLEAN}

LoginFailedSteps ==
    {loginCatch(Rejected(c), err) :
        c \in {d \in ClientIds : clients[d].conn = "pending"}, err \in Errors}

TransportCloseSteps ==
    {transportClose(Begin("close"), c) :
        c \in {d \in ClientIds : clients[d].conn = "ready" /\ ~clients[d].closed}}

SettledSteps ==
    UNION {IF k.at = "destroy"
           THEN {afterDestroy(Resume("destroyed", k), k, err) : err \in Errors}
                \cup {afterDestroyRejected(Resume("destroyRejected", k), k)}
           ELSE {afterUpdate(Resume("updated", k), k)} : k \in BagToSet(tasks)}

TimerSteps ==
    (IF intervals # {}
     THEN {tick(Begin("tick"), ed, t, strict) :
              ed \in Editors, t \in Times, strict \in BOOLEAN}
     ELSE {})
    \cup (IF timeouts > 0 THEN {timeoutFired(Begin("timeout"))} ELSE {})

Steps ==
    {r \in CommandSteps \cup ReadySteps \cup LoginFailedSteps
            \cup TransportCloseSteps \cup SettledSteps \cup TimerSteps : Fits(r)}

\* ------------------------------------------------------------------ claims
\* A Session: a Client created by initRPC whose login is pending or has
\* succeeded, that has not been destroyed and whose transport is open.
Alive(c) ==
    /\ clients[c].conn \in {"pending", "ready"}
    /\ ~clients[c].destroyed
    /\ ~clients[c].closed

Sessions == {c \in ClientIds : Alive(c)}

\* C1: at most one Session is alive at any time, under every interleaving
\* of activate, the commands, the login callbacks and the transport-close
\* callbacks, also those that run while destroyRPC is suspended.
C1_AtMostOneSession == Cardinality(Sessions) <= 1

\* C2: at most one RefreshTimer is active in every reachable state, and it
\* is the one activityTimer names: a 'ready' handler clears the running
\* interval before it starts its own.
C2_AtMostOneTimer ==
    /\ Cardinality(intervals) <= 1
    /\ intervals \subseteq {activityTimer}

\* Two Clients have had their 'ready' event, neither was destroyed since,
\* and an interval is running: the second handler ran with a timer active.
C2_Witness ==
    /\ Cardinality({c \in ClientIds : clients[c].conn = "ready" /\ ~clients[c].destroyed}) = 2
    /\ intervals # {}

\* C3: a RefreshTimer is active only while a Session is ready: once the
\* Session is destroyed or its transport has closed no interval is running.
C3_TimerOnlyWhileReady ==
    intervals # {} => \E c \in Sessions : clients[c].conn = "ready"

\* The run is (the rest of) a transport 'close' handler.
CloseHandler(r) == r.obs.ev = "close" \/ r.obs.kind = "close"

\* C4: whenever the transport-close handler calls initRPC to set up a new
\* Session, the RefreshTimer is already cancelled: no interval is running
\* that could tick against the new handle.
C4_TimerCancelledBeforeSetup ==
    \A r \in Steps : (CloseHandler(r) /\ r.obs.logins > 0) => r.intervals = {}

\* C5: every login failure handled while reconnecting, with the counter
\* below reconnectThreshold, adds exactly one to the counter, so that N
\* consecutive failures (N <= threshold) leave it at N; no other callback
\* changes it, except 'ready', which leaves it 0.
C5_CounterCountsFailures ==
    /\ reconnectCounter \in 0..config.reconnectThreshold
    /\ \A r \in Steps :
          r.reconnectCounter =
             IF r.obs.ev = "ready" THEN 0
             ELSE IF r.obs.ev = "loginFailed" /\ reconnecting
                     /\ reconnectCounter < config.reconnectThreshold
             THEN reconnectCounter + 1
             ELSE reconnectCounter

\* A reconnect sequence after MaxThreshold failures, with that threshold.
C5_Witness ==
    /\ reconnecting
    /\ config.reconnectThreshold = MaxThreshold
    /\ reconnectCounter = MaxThreshold

IsManual(icon) ==
    /\ icon.shown
    /\ icon.text = ManualIcon.text
    /\ icon.command = "discord.reconnect"

\* C6: the login failure that is the reconnectThreshold-th in a row while
\* reconnecting (the counter, the number of earlier ones, is threshold - 1)
\* starts no further login and leaves the manual-reconnect variant shown.
C6_ExhaustionAtThreshold ==
    \A r \in Steps :
        (r.obs.ev = "loginFailed" /\ reconnecting
            /\ reconnectCounter = config.reconnectThreshold - 1)
        => (r.obs.logins = 0 /\ IsManual(r.statusBarIcon))

SessionsOf(r) ==
    {c \in ClientIds : /\ r.clients[c].conn \in {"pending", "ready"}
                       /\ ~r.clients[c].destroyed
                       /\ ~r.clients[c].closed}

\* C7: when the disable command completes no Session is alive, no
\* RefreshTimer is active, and nothing is left that starts a login without
\* an enable or reconnect command (no suspended transport-close handler,
\* whose continuation calls initRPC).
C7_DisableQuiesces ==
    \A r \in Steps :
        r.obs.info = "Disabled Discord Rich Presence for this workspace."
        => /\ SessionsOf(r) = {}
           /\ r.intervals = {}
           /\ \A k \in BagToSet(r.tasks) : k.kind # "close"

\* C8: every login failure that ends in Failed (not reconnecting, or the
\* counter has reached the threshold) leaves the manual-reconnect control
\* shown, in silent mode too.
C8_FailedShowsManual ==
    \A r \in Steps :
        r.obs.outcome \in {"failed", "exhausted"} => IsManual(r.statusBarIcon)

\* The run ends the handling of a login failure that ended in Failed: the
\* catch callback ran to its end, or its await of destroyRPC was settled.
EndsFailure(r) ==
    \/ r.obs.ev = "loginFailed" /\ r.obs.outcome \in {"failed", "exhausted"}
          /\ BagCardinality(r.tasks) = BagCardinality(tasks)
    \/ r.obs.kind = "catch"

\* C9: a login failure that ends in Failed shows exactly one error notice
\* when silent mode is off and none when it is on; one that leads to an
\* automatic retry shows none.
C9_OneNoticePerFailure ==
    \A r \in Steps :
        /\ EndsFailure(r) => Len(r.obs.errors) = IF config.silent THEN 0 ELSE 1
        /\ r.obs.outcome = "retry" => r.obs.errors = <<>>

\* C10: while the current Session is Ready no Status Indicator exists, and
\* only a 'ready' event removes the indicator.
C10_IconGoneExactlyWhenReady ==
    /\ Live(Cur, rpc) => ~statusBarIcon.shown
    /\ \A r \in Steps :
          (statusBarIcon.shown /\ ~r.statusBarIcon.shown) => r.obs.ev = "ready"

\* The run reaches line 77 of discord.reconnect: at once when rpc is null,
\* else when the destroyRPC of line 76 is settled.
ReconnectRuns(r) ==
    /\ r.obs.ev = "reconnect" \/ r.obs.kind = "reconnect"
    /\ r.obs.logins > 0

\* The user is shown that a reconnect is under way: the notice of line 79
\* or the status bar text of line 81.
SurfacesReconnecting(r) ==
    \/ r.obs.info = "Reconnecting to Discord RPC"
    \/ r.statusBarIcon.shown /\ r.statusBarIcon.text = "$(pulse) Reconnecting"

\* C11: the reconnect command, in any state and in silent and non-silent
\* mode, starts a new login and always surfaces the "Reconnecting" status.
C11_ReconnectSurfaces ==
    \A r \in Steps : ReconnectRuns(r) => SurfacesReconnecting(r)

\* C12: whenever the attempts-remaining variant of the status bar icon is
\* shown, its number is reconnectThreshold minus the counter of that moment,
\* and its word is "attempt" exactly when the number is 1, else "attempts".
C12_AttemptsLabel ==
    (statusBarIcon.shown /\ statusBarIcon.text = AttemptsIcon(Cur).text)
    => /\ statusBarIcon.attempts = config.reconnectThreshold - reconnectCounter
       /\ statusBarIcon.word = IF statusBarIcon.attempts = 1 THEN "attempt"
                               ELSE "attempts"

\* The label after a counted failure: "1 attempt left", the singular.
C12_Witness ==
    /\ statusBarIcon.shown
    /\ statusBarIcon.text = AttemptsIcon(Cur).text
    /\ reconnectCounter = 1
    /\ statusBarIcon.attempts = 1
    /\ statusBarIcon.word = "attempt"

\* The run called destroyRPC with rpc null: the catch callback at line 155
\* (the other callers test rpc themselves or go on to write the variables).
DestroyedNothing(r) ==
    /\ r.obs.ev = "loginFailed"
    /\ r.obs.outcome = "exhausted"
    /\ rpc = Null

\* C13: destroyRPC with no Session (rpc null) leaves reconnecting, the
\* counter, the timer, lastKnownFile and activity as they are, and
\* rpc.destroy() is never invoked on a Client that was destroyed before.
C13_TeardownIdempotent ==
    \A r \in Steps :
        /\ DestroyedNothing(r)
           => /\ r.reconnecting = reconnecting
              /\ r.reconnectCounter = reconnectCounter
              /\ r.activityTimer = activityTimer
              /\ r.intervals = intervals
              /\ r.lastKnownFile = lastKnownFile
              /\ r.activity = activity
        /\ ~r.obs.redestroy

\* C14: with workspaceElapsedTime on, a full rebuild with a file focused
\* that follows a full rebuild with a file focused (the activity holds its
\* startTimestamp) keeps that startTimestamp, also after a transport close
\* and an automatic reconnect.
C14_ElapsedTimeKept ==
    \A r \in BuilderSteps :
        (/\ config.workspaceElapsedTime
         /\ r.obs.build = "full"
         /\ r.obs.ed.file # NoFile
         /\ activity.startTimestamp # NoTime)
        => r.activity.startTimestamp = activity.startTimestamp

\* C15: a call of setActivity with a Client and no file focused, whatever
\* the debug flag and the previous activity, does not throw and builds the
\* idle snapshot: idle templates, null startTimestamp, 'vscode-big'.
C15_IdleSnapshot ==
    \A r \in BuilderSteps :
        (rpc # Null /\ r.obs.ed.file = NoFile)
        => /\ ~r.obs.threw
           /\ r.obs.build = "full"
           /\ r.activity.details.template = "detailsIdle"
           /\ r.activity.state.template = "lowerDetailsIdle"
           /\ r.activity.startTimestamp = NoTime
           /\ r.activity.largeImageKey = "vscode-big"

\* An idle snapshot built while a debug session was active.
C15_Witness ==
    /\ activity.set
    /\ activity.file = NoFile
    /\ activity.smallImageKey = "debug"
    /\ activity.details.template = "detailsIdle"

\* The templates one call of setActivity renders.
Rendered(r) ==
    IF r.obs.build = "" THEN {}
    ELSE {Selected("detailsDebugging", "detailsEditing", "detailsIdle", r.obs.ed),
          Selected("lowerDetailsDebugging", "lowerDetailsEditing",
                   "lowerDetailsIdle", r.obs.ed)}

\* C16: in every build, full or partial, debugging or editing, statSync is
\* called only for a rendered template that contains {filesize}: a build
\* whose templates have no {filesize} makes no stat call.
C16_StatOnlyOnRequest ==
    \A r \in BuilderSteps :
        \A i \in 1..Len(r.obs.stats) :
            /\ r.obs.stats[i] \in Rendered(r)
            /\ "{filesize}" \in config.templates[r.obs.stats[i]]

\* A build whose details template asked for the file size and whose state
\* template did not.
C16_Witness ==
    /\ activity.set
    /\ activity.details.filesize
    /\ ~activity.state.filesize
    /\ activity.state.template = "lowerDetailsEditing"

\* C17: every tick of the interval that builds the activity does a full
\* rebuild, also when the focused file is unchanged.
C17_TickRebuildsFully ==
    \A r \in BuilderSteps :
        (r.obs.ev = "tick" /\ r.obs.build # "") => r.obs.build = "full"

\* C18: every rpc.setActivity call, of the 500 ms timeout and of the
\* interval, goes to a non-null handle of a ready Client that is neither
\* destroyed nor closed.
C18_TransmitOnlyWhenLive ==
    \A r \in Steps : r.obs.transmit \in {"", "live"}

\* A transport-close handler has begun the teardown (enabled was true).
CloseHandled == \E k \in BagToSet(tasks) : k.kind = "close"

\* The current Session is Ready.
ReadyState == Live(Cur, rpc)

\* Failed and at rest: no login is pending, reconnecting is false and no
\* continuation is suspended that could start a retry.
FailedAtRest ==
    /\ \A c \in ClientIds : clients[c].conn # "pending"
    /\ ~reconnecting
    /\ tasks = EmptyBag

\* C19: after a transport close handled while enabled, with every promise
\* settled in the end, the program reaches Ready or comes to rest in Failed;
\* when no login succeeds it is Failed it reaches, after finitely many
\* attempts.
C19_ReconnectLoopEnds == CloseHandled ~> (ReadyState \/ FailedAtRest)

\* Failed at rest after the attempts were used up.
C19_Witness ==
    /\ FailedAtRest
    /\ reconnectCounter = config.reconnectThreshold
    /\ rpc = Null
    /\ IsManual(statusBarIcon)

\* C20: a partial update renders the details and state strings a full
\* rebuild renders for the same editor state and templates, {lang} and
\* {LANG} included.
C20_PartialEqualsFull ==
    \A r \in BuilderSteps :
        r.obs.build = "partial"
        => /\ r.activity.details =
                 generateDetails(Cur, "detailsDebugging", "detailsEditing",
                                 "detailsIdle", Resolve(r.obs.ed), r.obs.ed)
           /\ r.activity.state =
                 generateDetails(Cur, "lowerDetailsDebugging", "lowerDetailsEditing",
                                 "lowerDetailsIdle", Resolve(r.obs.ed), r.obs.ed)

====
